---- MODULE Spec2Model ----
(***************************************************************************)
(* Model of the arrow-combo arcade game (App component, constants, types).  *)
(*                                                                         *)
(* React state (gameState, player, objects, score, pauseComboProgress) and *)
(* refs (keysPressed, lastObjectSpawn, gameLoopRef, lastComboPressTime,    *)
(* comboStartTimeRef, comboAnimationRef) are the variables.  Every browser *)
(* callback (animation frame, key event, button click) is one action; the  *)
(* action contains the re-render the callback's state updates cause and    *)
(* the effect cleanups/creations of that render, so the closures that the  *)
(* next callback runs always hold the committed gameState and player.x.    *)
(* Inside one gameLoop call the closure still holds the values of the      *)
(* render that created it, i.e. the unprimed gameState and player.x.       *)
(*                                                                         *)
(* Time is Date.now() in ms.  Pending requestAnimationFrame callbacks are  *)
(* the set frames of [id, fn]; handles are chosen fresh (only equality of  *)
(* handles matters to cancelAnimationFrame).                               *)
(***************************************************************************)
EXTENDS Integers, Sequences, FiniteSets, TLC

VARIABLES gameState, player, objects, score, pauseComboProgress,
          keysPressed, lastObjectSpawn, gameLoopRef, lastComboPressTime,
          comboStartTimeRef, comboAnimationRef,
          frames,      \* pending animation-frame callbacks: [id, fn]
          now,         \* Date.now()
          down,        \* keys physically held (decides KeyboardEvent.repeat)
          last,        \* history: the callback that produced this state
          activeTicks, \* history: gameLoop calls that ran Active since start
          ticks,       \* history: Active gameLoop calls of this run (capped)
          mounted,     \* the component is mounted (effects not yet torn down)
          comboDecayed \* history: animateComboBar ran since the last first press

vars == <<gameState, player, objects, score, pauseComboProgress,
          keysPressed, lastObjectSpawn, gameLoopRef, lastComboPressTime,
          comboStartTimeRef, comboAnimationRef, frames, now, down, last,
          activeTicks, ticks, mounted, comboDecayed>>

----------------------------------------------------------------------------
(* constants.ts *)
GAME_WIDTH == 600
GAME_HEIGHT == 800
PAUSE_COMBO_TIMEOUT == 4000
PLAYER_WIDTH == 60
PLAYER_HEIGHT == 20
PLAYER_Y_POSITION == GAME_HEIGHT - PLAYER_HEIGHT - 20
PLAYER_SPEED == 8
OBJECT_SIZE == 25
OBJECT_SPEED == 4
OBJECT_SPAWN_INTERVAL == 500

(* types.ts: enum GameState *)
GameState == {"Ready", "Active", "Paused", "GameOver"}

----------------------------------------------------------------------------
(* Bounds of the model *)
T0 == 10000          \* Date.now() when the component mounts
MaxElapsed == 4000   \* the clock stops advancing at T0 + MaxElapsed
MaxTicks == 3        \* Active gameLoop calls explored per run

MaxNow == T0 + MaxElapsed

\* Active ticks after which the bottom edge of an object spawned by the first
\* tick has come down to PLAYER_Y_POSITION
PlayTicks == PLAYER_Y_POSITION \div OBJECT_SPEED

ClockSteps == {2000}                 \* ms that may pass between callbacks
SpawnXs == {0, 574}                  \* values of the random spawn x
Keys == {"ArrowLeft", "ArrowRight", "a"}

Max(a, b) == IF a >= b THEN a ELSE b
Min(a, b) == IF a <= b THEN a ELSE b

----------------------------------------------------------------------------
(* requestAnimationFrame / cancelAnimationFrame over the record            *)
(* T = [frames, gameLoopRef, comboAnimationRef]                            *)

Timers == [frames |-> frames, gameLoopRef |-> gameLoopRef,
           comboAnimationRef |-> comboAnimationRef]

FrameIds(F) == {f.id : f \in F}

\* a handle no pending frame and no other ref holds (0 is "undefined")
FreshHandle(F, keep) ==
    LET used == FrameIds(F) \cup keep
    IN  CHOOSE h \in 1..(Cardinality(used) + 1) :
            /\ h \notin used
            /\ \A g \in 1..(Cardinality(used) + 1) : g \notin used => h <= g

cancelAnimationFrame(T, h) ==
    [T EXCEPT !.frames = {f \in @ : f.id # h}]

requestGameLoop(T) ==
    LET h == FreshHandle(T.frames, {T.comboAnimationRef})
    IN  [T EXCEPT !.frames = @ \cup {[id |-> h, fn |-> "gameLoop"]},
                  !.gameLoopRef = h]

requestAnimateComboBar(T) ==
    LET h == FreshHandle(T.frames, {T.gameLoopRef})
    IN  [T EXCEPT !.frames = @ \cup {[id |-> h, fn |-> "animateComboBar"]},
                  !.comboAnimationRef = h]

commitEffectsNoCancel(T, loopChanged, comboChanged) ==
    LET T2 == IF comboChanged /\ T.comboAnimationRef # 0
              THEN cancelAnimationFrame(T, T.comboAnimationRef) ELSE T
    IN  IF loopChanged THEN requestGameLoop(T2) ELSE T2

\* The effects of the render that follows a callback.  gameLoop is rebuilt
\* when gameState or player.x changed, handlePauseCombo (and with it the
\* keyboard effect) when gameState changed.  React runs the cleanups of all
\* changed effects, then their bodies.
commitEffects(T, loopChanged, comboChanged) ==
    LET T1 == IF loopChanged /\ T.gameLoopRef # 0
              THEN cancelAnimationFrame(T, T.gameLoopRef) ELSE T
        T2 == IF comboChanged /\ T1.comboAnimationRef # 0
              THEN cancelAnimationFrame(T1, T1.comboAnimationRef) ELSE T1
    IN  IF loopChanged THEN requestGameLoop(T2) ELSE T2

SetTimers(T) ==
    /\ frames' = T.frames
    /\ gameLoopRef' = T.gameLoopRef
    /\ comboAnimationRef' = T.comboAnimationRef

ComboFrames(F) == {f \in F : f.fn = "animateComboBar"}
LoopFrames(F) == {f \in F : f.fn = "gameLoop"}

----------------------------------------------------------------------------
(* State after the component has mounted *)

initialPlayer ==
    [x |-> GAME_WIDTH \div 2 - PLAYER_WIDTH \div 2,
     width |-> PLAYER_WIDTH, height |-> PLAYER_HEIGHT]

Init ==
    /\ gameState = "Ready"
    /\ player = initialPlayer
    /\ objects = <<>>
    /\ score = 0
    /\ pauseComboProgress = 0
    /\ keysPressed = {}
    /\ lastObjectSpawn = 0
    /\ lastComboPressTime = 0
    /\ comboStartTimeRef = 0
    /\ comboAnimationRef = 0
    /\ gameLoopRef = 1
    /\ frames = {[id |-> 1, fn |-> "gameLoop"]}
    /\ now = T0
    /\ down = {}
    /\ last = [op |-> "mount", combo |-> "none"]
    /\ activeTicks = 0
    /\ ticks = 0
    /\ mounted = TRUE
    /\ comboDecayed = FALSE

----------------------------------------------------------------------------
(* Pure parts of the callbacks *)

movePlayerUnclamped(p, keys) ==
    LET x1 == IF "ArrowLeft" \in keys THEN p.x - PLAYER_SPEED ELSE p.x
        x2 == IF "ArrowRight" \in keys THEN x1 + PLAYER_SPEED ELSE x1
    IN  [p EXCEPT !.x = x2]

\* gameLoop, the setPlayer updater
movePlayer(p, keys) ==
    LET x1 == IF "ArrowLeft" \in keys THEN p.x - PLAYER_SPEED ELSE p.x
        x2 == IF "ArrowRight" \in keys THEN x1 + PLAYER_SPEED ELSE x1
    IN  [p EXCEPT !.x = Max(0, Min(GAME_WIDTH - PLAYER_WIDTH, x2))]

spawnDueInclusive(t, lastSpawn) == t - lastSpawn >= OBJECT_SPAWN_INTERVAL

\* gameLoop, the spawn test and the new object
spawnDue(t, lastSpawn) == t - lastSpawn > OBJECT_SPAWN_INTERVAL

newObjectIdInSeconds(t, x) ==
    [id |-> t \div 1000, x |-> x, y |-> -OBJECT_SIZE, size |-> OBJECT_SIZE]

newObject(t, x) == [id |-> t, x |-> x, y |-> -OBJECT_SIZE, size |-> OBJECT_SIZE]

onScreenUntilGone(obj) == obj.y - obj.size < GAME_HEIGHT

\* gameLoop, the setObjects updater: map then filter
onScreen(obj) == obj.y < GAME_HEIGHT

advanceObjects(objs) ==
    SelectSeq([i \in DOMAIN objs |-> [objs[i] EXCEPT !.y = @ + OBJECT_SPEED]],
              onScreen)

\* gameLoop, the collision test against a player whose left edge is px
collides(obj, px) ==
    /\ obj.y + obj.size > PLAYER_Y_POSITION
    /\ obj.y < PLAYER_Y_POSITION + PLAYER_HEIGHT
    /\ obj.x + obj.size > px
    /\ obj.x < px + PLAYER_WIDTH

anyCollision(objs, px) == \E i \in DOMAIN objs : collides(objs[i], px)

loopRunsUnlessOver(gs) == gs = "Active" \/ gs = "Paused"

\* gameLoop, the guard of the simulation branch
loopRuns(gs) == gs = "Active"

idleTickNoRearm(T) == T

\* gameLoop, the branch taken when the simulation does not run
idleTick(T) == requestGameLoop(T)

nextScoreUnlessHit(s, hit) == IF hit THEN s ELSE s + 1

\* gameLoop, the score updater; hit tells whether this tick found a collision
nextScore(s, hit) == s + 1

comboProgressRising(elapsed) ==
    Max(0, Min(50, (50 * elapsed) \div PAUSE_COMBO_TIMEOUT))

\* animateComboBar: Math.max(0, 50 * (1 - elapsed / PAUSE_COMBO_TIMEOUT)).
\* Clock readings differ by multiples of 80 ms, so the quotient is exact.
comboProgress(elapsed) ==
    Max(0, (50 * (PAUSE_COMBO_TIMEOUT - elapsed)) \div PAUSE_COMBO_TIMEOUT)

comboAcceptsStarted(gs) == gs # "Ready"

\* handlePauseCombo, the guard at its top
comboAccepts(gs) == gs = "Active" \/ gs = "Paused"

isDoublePressInclusive(t, lastPress) == t - lastPress <= PAUSE_COMBO_TIMEOUT

\* handlePauseCombo, the double-press test
isDoublePress(t, lastPress) == t - lastPress < PAUSE_COMBO_TIMEOUT

toggledPauseOnly(gs) == IF gs = "Active" THEN "Paused" ELSE gs

\* handlePauseCombo, the state a double press sets
toggled(gs) ==
    IF gs = "Active" THEN "Paused"
    ELSE IF gs = "Paused" THEN "Active" ELSE gs

\* handleKeyDown, the test that calls handlePauseCombo
bothArrows(keys) == "ArrowLeft" \in keys /\ "ArrowRight" \in keys

\* cleanupCombo, its effect on the animation frames
cleanupComboTimers(T) ==
    IF T.comboAnimationRef # 0
    THEN cancelAnimationFrame(T, T.comboAnimationRef) ELSE T

----------------------------------------------------------------------------
(* Callbacks *)

\* The main tick: an animation frame that runs gameLoop.
gameLoop(f) ==
    /\ f \in frames /\ f.fn = "gameLoop"
    /\ LET T0f == [Timers EXCEPT !.frames = @ \ {f}]
       IN  IF ~loopRuns(gameState)
           THEN /\ SetTimers(idleTick(T0f))
                /\ UNCHANGED <<gameState, player, objects, score,
                               lastObjectSpawn, ticks>>
           ELSE /\ ticks < MaxTicks
                /\ \E sx \in SpawnXs :
                     LET due == spawnDue(now, lastObjectSpawn)
                         withNew == IF due THEN Append(objects, newObject(now, sx))
                                    ELSE objects
                         updated == advanceObjects(withNew)
                         hit == anyCollision(updated, player.x)
                         newPlayer == movePlayer(player, keysPressed)
                         newState == IF hit THEN "GameOver" ELSE gameState
                     IN  /\ (~due => sx = CHOOSE v \in SpawnXs : TRUE)
                         /\ player' = newPlayer
                         /\ lastObjectSpawn' = IF due THEN now ELSE lastObjectSpawn
                         /\ objects' = updated
                         /\ gameState' = newState
                         /\ score' = nextScore(score, hit)
                         /\ SetTimers(commitEffects(requestGameLoop(T0f),
                                newState # gameState \/ newPlayer.x # player.x,
                                newState # gameState))
                /\ ticks' = ticks + 1
    /\ activeTicks' = IF gameState = "Active" THEN activeTicks + 1
                      ELSE activeTicks
    /\ last' = [op |-> "gameLoop", combo |-> "none"]
    /\ UNCHANGED <<pauseComboProgress, keysPressed, lastComboPressTime,
                   comboStartTimeRef, now, down, mounted, comboDecayed>>

\* The decay tick: an animation frame that runs animateComboBar.
animateComboBar(f) ==
    /\ f \in frames /\ f.fn = "animateComboBar"
    /\ LET T0f == [Timers EXCEPT !.frames = @ \ {f}]
           progress == comboProgress(now - comboStartTimeRef)
       IN  /\ pauseComboProgress' = progress
           /\ IF progress > 0
              THEN /\ SetTimers(requestAnimateComboBar(T0f))
                   /\ UNCHANGED lastComboPressTime
              ELSE /\ SetTimers(T0f)
                   /\ lastComboPressTime' = 0
    /\ comboDecayed' = TRUE
    /\ last' = [op |-> "animateComboBar", combo |-> "none"]
    /\ UNCHANGED <<gameState, player, objects, score, keysPressed,
                   lastObjectSpawn, comboStartTimeRef, now, down,
                   activeTicks, ticks, mounted>>

\* Which branch handlePauseCombo takes
comboBranch(gs, t, lastPress) ==
    IF ~comboAccepts(gs) THEN "ignored"
    ELSE IF isDoublePress(t, lastPress) THEN "toggle" ELSE "first"

handlePauseCombo ==
    IF ~comboAccepts(gameState)
    THEN UNCHANGED <<gameState, lastComboPressTime, comboStartTimeRef,
                     pauseComboProgress, frames, gameLoopRef,
                     comboAnimationRef>>
    ELSE IF isDoublePress(now, lastComboPressTime)
    THEN /\ gameState' = toggled(gameState)
         /\ lastComboPressTime' = 0
         /\ pauseComboProgress' = 0
         /\ SetTimers(commitEffects(cleanupComboTimers(Timers),
                                    toggled(gameState) # gameState,
                                    toggled(gameState) # gameState))
         /\ UNCHANGED comboStartTimeRef
    ELSE /\ lastComboPressTime' = now
         /\ comboStartTimeRef' = now
         /\ SetTimers(requestAnimateComboBar(cleanupComboTimers(Timers)))
         /\ UNCHANGED <<gameState, pauseComboProgress>>

handleKeyDown(k, repeat) ==
    /\ repeat <=> k \in down
    /\ down' = down \cup {k}
    /\ IF repeat
       THEN /\ UNCHANGED <<keysPressed, gameState, lastComboPressTime,
                           comboStartTimeRef, pauseComboProgress, frames,
                           gameLoopRef, comboAnimationRef>>
            /\ last' = [op |-> "key", combo |-> "none"]
       ELSE /\ keysPressed' = keysPressed \cup {k}
            /\ IF bothArrows(keysPressed \cup {k})
               THEN /\ handlePauseCombo
                    /\ last' = [op |-> "keydown",
                                combo |-> comboBranch(gameState, now,
                                                      lastComboPressTime)]
               ELSE /\ UNCHANGED <<gameState, lastComboPressTime,
                                   comboStartTimeRef, pauseComboProgress,
                                   frames, gameLoopRef, comboAnimationRef>>
                    /\ last' = [op |-> "key", combo |-> "none"]
    /\ comboDecayed' =
          IF ~repeat /\ bothArrows(keysPressed \cup {k})
             /\ comboBranch(gameState, now, lastComboPressTime) = "first"
          THEN FALSE ELSE comboDecayed
    /\ UNCHANGED <<player, objects, score, lastObjectSpawn, now,
                   activeTicks, ticks, mounted>>

handleKeyUp(k) ==
    /\ k \in down
    /\ down' = down \ {k}
    /\ keysPressed' = keysPressed \ {k}
    /\ last' = [op |-> "key", combo |-> "none"]
    /\ UNCHANGED <<gameState, player, objects, score, pauseComboProgress,
                   lastObjectSpawn, gameLoopRef, lastComboPressTime,
                   comboStartTimeRef, comboAnimationRef, frames, now,
                   activeTicks, ticks, mounted, comboDecayed>>

resetGameKeepObjects ==
    /\ player' = initialPlayer
    /\ objects' = objects
    /\ score' = 0
    /\ keysPressed' = {}
    /\ gameState' = "Active"
    /\ SetTimers(commitEffects(Timers,
                               gameState # "Active" \/ player.x # initialPlayer.x,
                               gameState # "Active"))
    /\ activeTicks' = 0
    /\ last' = [op |-> "resetGame", combo |-> "none"]
    /\ UNCHANGED <<pauseComboProgress, lastObjectSpawn, lastComboPressTime,
                   comboStartTimeRef, now, down, ticks, mounted,
                   comboDecayed>>

resetGame ==
    /\ player' = initialPlayer
    /\ objects' = <<>>
    /\ score' = 0
    /\ keysPressed' = {}
    /\ gameState' = "Active"
    /\ SetTimers(commitEffects(Timers,
                               gameState # "Active" \/ player.x # initialPlayer.x,
                               gameState # "Active"))
    /\ activeTicks' = 0
    /\ last' = [op |-> "resetGame", combo |-> "none"]
    /\ UNCHANGED <<pauseComboProgress, lastObjectSpawn, lastComboPressTime,
                   comboStartTimeRef, now, down, ticks, mounted,
                   comboDecayed>>

resumeGameNoCleanup ==
    /\ IF gameState = "Paused"
       THEN /\ keysPressed' = {}
            /\ gameState' = "Active"
            /\ SetTimers(commitEffects(Timers, TRUE, TRUE))
            /\ UNCHANGED <<lastComboPressTime, pauseComboProgress>>
       ELSE UNCHANGED <<keysPressed, lastComboPressTime, pauseComboProgress,
                        gameState, frames, gameLoopRef, comboAnimationRef>>
    /\ last' = [op |-> "resumeGame", combo |-> "none"]
    /\ UNCHANGED <<player, objects, score, lastObjectSpawn,
                   comboStartTimeRef, now, down, activeTicks, ticks,
                   mounted, comboDecayed>>

resumeGame ==
    /\ IF gameState = "Paused"
       THEN /\ keysPressed' = {}
            /\ lastComboPressTime' = 0
            /\ pauseComboProgress' = 0
            /\ gameState' = "Active"
            /\ SetTimers(commitEffects(cleanupComboTimers(Timers), TRUE, TRUE))
       ELSE UNCHANGED <<keysPressed, lastComboPressTime, pauseComboProgress,
                        gameState, frames, gameLoopRef, comboAnimationRef>>
    /\ last' = [op |-> "resumeGame", combo |-> "none"]
    /\ UNCHANGED <<player, objects, score, lastObjectSpawn,
                   comboStartTimeRef, now, down, activeTicks, ticks,
                   mounted, comboDecayed>>

startButtonUnlessActive == gameState # "Active"

\* renderContent: the overlay button that exists in each game state
startButton == gameState = "Ready" \/ gameState = "GameOver"
resumeButton == gameState = "Paused"

ClickStart == mounted /\ startButton /\ resetGame
ClickResume == mounted /\ resumeButton /\ resumeGame

unmountTimersLoopOnly(T) ==
    IF T.gameLoopRef # 0 THEN cancelAnimationFrame(T, T.gameLoopRef) ELSE T

\* the cleanups of the game loop effect and of the keyboard effect
unmountTimers(T) ==
    LET T1 == IF T.gameLoopRef # 0
              THEN cancelAnimationFrame(T, T.gameLoopRef) ELSE T
    IN  IF T1.comboAnimationRef # 0
        THEN cancelAnimationFrame(T1, T1.comboAnimationRef) ELSE T1

\* Teardown: the component unmounts, every effect cleanup runs, the key
\* listeners and the overlay buttons are gone.
Unmount ==
    /\ mounted
    /\ mounted' = FALSE
    /\ SetTimers(unmountTimers(Timers))
    /\ last' = [op |-> "unmount", combo |-> "none"]
    /\ UNCHANGED <<gameState, player, objects, score, pauseComboProgress,
                   keysPressed, lastObjectSpawn, lastComboPressTime,
                   comboStartTimeRef, now, down, activeTicks, ticks,
                   comboDecayed>>

\* Wall-clock time passes between callbacks
Tock ==
    /\ \E d \in ClockSteps : now + d <= MaxNow /\ now' = now + d
    /\ last' = [op |-> "tock", combo |-> "none"]
    /\ UNCHANGED <<gameState, player, objects, score, pauseComboProgress,
                   keysPressed, lastObjectSpawn, gameLoopRef,
                   lastComboPressTime, comboStartTimeRef, comboAnimationRef,
                   frames, down, activeTicks, ticks, mounted, comboDecayed>>

MainTick == \E f \in frames : gameLoop(f)
DecayTick == \E f \in frames : animateComboBar(f)
KeyDown == mounted /\ \E k \in Keys, r \in BOOLEAN : handleKeyDown(k, r)
KeyUp == mounted /\ \E k \in Keys : handleKeyUp(k)

Next ==
    \/ MainTick
    \/ DecayTick
    \/ KeyDown
    \/ KeyUp
    \/ ClickStart
    \/ ClickResume
    \/ Unmount
    \/ Tock

Spec == Init /\ [][Next]_vars

----------------------------------------------------------------------------
(* A session in progress: start() at T0, then PlayTicks or FallTicks Active *)
(* ticks within one spawn interval, the player having been steered to px    *)
(* and released.  The object spawned by the first tick has fallen to just   *)
(* above the player's row (its bottom edge touches PLAYER_Y_POSITION), or   *)
(* past a player who stood clear of it to just above the bottom edge.       *)

\* Active ticks after which such an object is two ticks away from leaving the
\* field (its y is GAME_HEIGHT - 5; the player stood clear of it)
FallTicks == (GAME_HEIGHT + OBJECT_SIZE) \div OBJECT_SPEED - 1

\* <<player x, object x, Active ticks played, ms since the first spawn>>
PlayStarts ==
    {<<270, 330, PlayTicks, 0>>, <<6, 20, PlayTicks, 0>>,
     <<534, 0, FallTicks, OBJECT_SPAWN_INTERVAL>>}

InitPlay ==
    \/ Init
    \/ \E s \in PlayStarts :
        /\ gameState = "Active"
        /\ player = [initialPlayer EXCEPT !.x = s[1]]
        /\ objects = <<[id |-> T0, x |-> s[2],
                        y |-> -OBJECT_SIZE + OBJECT_SPEED * s[3],
                        size |-> OBJECT_SIZE]>>
        /\ score = s[3]
        /\ pauseComboProgress = 0
        /\ keysPressed = {}
        /\ lastObjectSpawn = T0
        /\ lastComboPressTime = 0
        /\ comboStartTimeRef = 0
        /\ comboAnimationRef = 0
        /\ gameLoopRef = 1
        /\ frames = {[id |-> 1, fn |-> "gameLoop"]}
        /\ now = T0 + s[4]
        /\ down = {}
        /\ last = [op |-> "gameLoop", combo |-> "none"]
        /\ activeTicks = s[3]
        /\ ticks = 0
        /\ mounted = TRUE
        /\ comboDecayed = FALSE

SpecPlay == InitPlay /\ [][Next]_vars

\* Callbacks the browser has scheduled are eventually run.
SpecFair == InitPlay /\ [][Next]_vars /\ WF_vars(MainTick) /\ WF_vars(DecayTick)

----------------------------------------------------------------------------
(* Properties *)

\* the player's rectangle overlaps no object
Overlap == \E i \in DOMAIN objects :
    /\ objects[i].x + objects[i].size > player.x
    /\ objects[i].x < player.x + player.width
    /\ objects[i].y + objects[i].size > PLAYER_Y_POSITION
    /\ objects[i].y < PLAYER_Y_POSITION + player.height

\* the step ran handlePauseCombo (a key-down with both arrows in keysPressed)
Pressed == last'.op = "keydown"

DecayPending == ComboFrames(frames) # {}

\* C1: in every reachable state the player's x lies in
\* [0, GAME_WIDTH - PLAYER_WIDTH].
C1_PlayerInField ==
    0 <= player.x /\ player.x <= GAME_WIDTH - PLAYER_WIDTH

C1_Witness ==
    /\ last.op = "gameLoop"
    /\ "ArrowLeft" \in keysPressed
    /\ player.x = 0

\* C2: no state has gameState = Active together with an object that
\* overlaps the player's rectangle (the collision check of a tick sees the
\* player and the objects as that tick updated them).
C2_ActiveNeverOverlaps ==
    gameState = "Active" => ~Overlap

\* C3: a main tick adds exactly 1 to score when it ran with gameState
\* Active (the collision tick included) and leaves score alone otherwise;
\* score is the number of Active ticks since the last start().
C3_ScorePerActiveTick ==
    /\ [][last'.op = "gameLoop" =>
            score' = IF gameState = "Active" THEN score + 1 ELSE score]_vars
    /\ [](score = activeTicks)

C3_Witness ==
    /\ last.op = "gameLoop"
    /\ gameState = "GameOver"
    /\ score = PlayTicks + 1

\* C4: a press that arrives armed and less than PAUSE_COMBO_TIMEOUT after
\* the first press, with gameState Active or Paused, toggles gameState,
\* clears lastComboPressTime and pauseComboProgress and leaves no decay
\* callback pending; a press right after it would be a first press.
C4_SecondPressToggles ==
    [][(/\ Pressed
        /\ gameState \in {"Active", "Paused"}
        /\ lastComboPressTime # 0
        /\ now - lastComboPressTime < PAUSE_COMBO_TIMEOUT)
       => /\ gameState = "Active" => gameState' = "Paused"
          /\ gameState = "Paused" => gameState' = "Active"
          /\ lastComboPressTime' = 0
          /\ pauseComboProgress' = 0
          /\ ~DecayPending'
          /\ now' - lastComboPressTime' >= PAUSE_COMBO_TIMEOUT]_vars

C4_Witness ==
    /\ last = [op |-> "keydown", combo |-> "toggle"]
    /\ gameState = "Active"
    /\ objects # <<>>

\* C5: a press that arrives with lastComboPressTime = 0, or
\* PAUSE_COMBO_TIMEOUT or more after the recorded first press, never changes
\* gameState; with gameState Active or Paused it only records
\* lastComboPressTime = comboStartTimeRef = now and schedules one decay
\* callback.
C5_FirstPressOnlyArms ==
    [][(/\ Pressed
        /\ \/ lastComboPressTime = 0
           \/ now - lastComboPressTime >= PAUSE_COMBO_TIMEOUT)
       => /\ UNCHANGED <<gameState, player, objects, score,
                         pauseComboProgress>>
          /\ gameState \in {"Active", "Paused"} =>
                /\ lastComboPressTime' = now
                /\ comboStartTimeRef' = now
                /\ Cardinality(ComboFrames(frames')) = 1
                /\ \A f \in ComboFrames(frames') :
                       f.id = comboAnimationRef']_vars

C5_Witness ==
    /\ last = [op |-> "keydown", combo |-> "first"]
    /\ pauseComboProgress > 0
    /\ lastComboPressTime = T0 + PAUSE_COMBO_TIMEOUT

\* C6: once PAUSE_COMBO_TIMEOUT has elapsed since the first press of an
\* armed gesture, then, unless another press arrives, the gesture is
\* eventually Idle (lastComboPressTime cleared) with pauseComboProgress 0.
C6_ArmedTimesOut ==
    [](  (/\ lastComboPressTime # 0
          /\ now - lastComboPressTime >= PAUSE_COMBO_TIMEOUT)
      => <>(\/ lastComboPressTime = 0 /\ pauseComboProgress = 0
            \/ last.op = "keydown"))

\* C7: a press while gameState is Ready or GameOver changes neither
\* gameState nor lastComboPressTime, comboStartTimeRef, pauseComboProgress
\* nor the pending decay callbacks.
C7_PressIgnored ==
    [][(Pressed /\ gameState \in {"Ready", "GameOver"})
       => /\ UNCHANGED <<gameState, lastComboPressTime, comboStartTimeRef,
                         pauseComboProgress, comboAnimationRef>>
          /\ ComboFrames(frames') = ComboFrames(frames)]_vars

C7_Witness ==
    /\ last = [op |-> "keydown", combo |-> "ignored"]
    /\ gameState = "GameOver"
    /\ lastComboPressTime # 0

\* C8: a key-down registers as a first or second combo press only if it is
\* the key-down at which ArrowLeft and ArrowRight become simultaneously held.
C8_OnlyOnBothArrowsEdge ==
    [][(Pressed /\ gameState \in {"Active", "Paused"}) =>
          /\ ~("ArrowLeft" \in keysPressed /\ "ArrowRight" \in keysPressed)
          /\ "ArrowLeft" \in keysPressed' /\ "ArrowRight" \in keysPressed']_vars

\* C9: gameState changes only by Ready -> Active and GameOver -> Active
\* (start), Active -> Paused (combo), Paused -> Active (combo or resume) and
\* Active -> GameOver (collision found by a main tick).
C9_Transitions ==
    [][gameState' # gameState =>
          \/ /\ gameState \in {"Ready", "GameOver"}
             /\ gameState' = "Active"
             /\ last'.op = "resetGame"
          \/ /\ gameState = "Active"
             /\ gameState' = "Paused"
             /\ last'.op = "keydown"
          \/ /\ gameState = "Paused"
             /\ gameState' = "Active"
             /\ last'.op \in {"keydown", "resumeGame"}
          \/ /\ gameState = "Active"
             /\ gameState' = "GameOver"
             /\ last'.op = "gameLoop"]_vars

C9_Witness ==
    /\ last.op = "resetGame"
    /\ gameState = "Active"
    /\ ticks > 0

\* C10: right after start() the gesture is Idle (lastComboPressTime
\* cleared), pauseComboProgress is 0 and no decay callback is pending.
C10_StartResetsCombo ==
    [][last'.op = "resetGame" =>
          /\ lastComboPressTime' = 0
          /\ pauseComboProgress' = 0
          /\ ~DecayPending']_vars

\* C11: every start() leaves score = 0, objects = [], player x =
\* GAME_WIDTH/2 - PLAYER_WIDTH/2 and gameState = Active, whatever the state
\* it was called in, so two calls in a row leave the same gameplay state.
C11_StartResetsGameplay ==
    [][last'.op = "resetGame" =>
          /\ score' = 0
          /\ objects' = <<>>
          /\ player'.x = GAME_WIDTH \div 2 - PLAYER_WIDTH \div 2
          /\ player'.width = PLAYER_WIDTH /\ player'.height = PLAYER_HEIGHT
          /\ gameState' = "Active"]_vars

C11_Witness ==
    /\ last.op = "resetGame"
    /\ score = 0 /\ objects = <<>> /\ gameState = "Active"
    /\ lastObjectSpawn > T0

ObjectIds(objs) == {objs[i].id : i \in DOMAIN objs}

ActiveTick == last'.op = "gameLoop" /\ gameState = "Active"

\* C14: every object of the exposed set has y < GAME_HEIGHT; an Active
\* tick moves every object down by exactly OBJECT_SPEED with id, x and size
\* unchanged, and drops the objects this brings to y >= GAME_HEIGHT; an id
\* that enters the set is larger than every id seen before, so a dropped id
\* never comes back.
C14_ObjectsFallAndLeave ==
    /\ [](\A i \in DOMAIN objects :
             /\ objects[i].y < GAME_HEIGHT
             /\ objects[i].id <= lastObjectSpawn)
    /\ [][ActiveTick =>
            \A i \in DOMAIN objects :
               IF objects[i].y + OBJECT_SPEED < GAME_HEIGHT
               THEN \E j \in DOMAIN objects' :
                       objects'[j] = [objects[i] EXCEPT !.y = @ + OBJECT_SPEED]
               ELSE objects[i].id \notin ObjectIds(objects')]_vars
    /\ [][/\ lastObjectSpawn' >= lastObjectSpawn
          /\ \A j \in DOMAIN objects' :
                \/ objects'[j].id \in ObjectIds(objects)
                \/ objects'[j].id > lastObjectSpawn]_vars

C14_Witness ==
    /\ last.op = "gameLoop"
    /\ gameState = "Active"
    /\ objects = <<>>
    /\ score = FallTicks + 2

\* C15: a step adds at most one object, and adds one exactly when it is a
\* main tick run with gameState Active and now - lastObjectSpawn >
\* OBJECT_SPAWN_INTERVAL; a spawn sets lastObjectSpawn to now, so two
\* consecutive spawns are more than OBJECT_SPAWN_INTERVAL apart, and nothing
\* is spawned in Ready, Paused or GameOver.
C15_SpawnRule ==
    [][LET new == ObjectIds(objects') \ ObjectIds(objects)
       IN  /\ Cardinality(new) <= 1
           /\ Len(objects') <= Len(objects) + 1
           /\ (new # {}) <=>
                 (ActiveTick /\ now - lastObjectSpawn > OBJECT_SPAWN_INTERVAL)
           /\ IF new # {}
              THEN /\ lastObjectSpawn' = now
                   /\ lastObjectSpawn' - lastObjectSpawn > OBJECT_SPAWN_INTERVAL
              ELSE lastObjectSpawn' = lastObjectSpawn]_vars

C15_Witness ==
    /\ last.op = "gameLoop"
    /\ Len(objects) = 2
    /\ lastObjectSpawn = now
    /\ objects[2].y = -OBJECT_SIZE + OBJECT_SPEED

\* C16: a main tick run while gameState is Ready, Paused or GameOver leaves
\* player, objects, score and gameState unchanged (and lastObjectSpawn: no
\* spawn) and leaves exactly one main-tick callback pending, the one
\* gameLoopRef names.
C16_IdleTickOnlyRearms ==
    [][(last'.op = "gameLoop" /\ gameState # "Active") =>
          /\ UNCHANGED <<gameState, player, objects, score, lastObjectSpawn>>
          /\ Cardinality(LoopFrames(frames')) = 1
          /\ \A f \in LoopFrames(frames') : f.id = gameLoopRef']_vars

C16_Witness ==
    /\ last.op = "gameLoop"
    /\ gameState = "Paused"
    /\ objects # <<>>
    /\ "ArrowLeft" \in keysPressed

\* C17: after teardown no main-tick and no decay callback is pending, and
\* no step changes the simulation state or the refs any more.
C17_NothingRunsAfterTeardown ==
    /\ [](~mounted => frames = {})
    /\ [][~mounted =>
            UNCHANGED <<gameState, player, objects, score,
                        pauseComboProgress, keysPressed, lastObjectSpawn,
                        lastComboPressTime, comboStartTimeRef, gameLoopRef,
                        comboAnimationRef, frames, mounted>>]_vars

C17_Witness ==
    /\ last.op = "unmount"
    /\ ~mounted
    /\ gameState = "Active"
    /\ lastComboPressTime # 0
    /\ pauseComboProgress > 0
    /\ now - comboStartTimeRef < PAUSE_COMBO_TIMEOUT

ProgressInRange == 0 <= pauseComboProgress /\ pauseComboProgress <= 50

\* what a decay callback stores, and when that is 0
DecaySetsProgress ==
    last'.op = "animateComboBar" =>
       LET elapsed == now - comboStartTimeRef
       IN  /\ elapsed < PAUSE_COMBO_TIMEOUT =>
                pauseComboProgress' * PAUSE_COMBO_TIMEOUT =
                   50 * (PAUSE_COMBO_TIMEOUT - elapsed)
           /\ elapsed >= PAUSE_COMBO_TIMEOUT => pauseComboProgress' = 0
           /\ pauseComboProgress' = 0 <=> elapsed >= PAUSE_COMBO_TIMEOUT

\* C18 as stated: pauseComboProgress lies in [0, 50], a decay callback sets
\* it to max(0, 50 * (1 - elapsed / PAUSE_COMBO_TIMEOUT)), which is 0 exactly
\* from PAUSE_COMBO_TIMEOUT on, and from a first press to the end of that
\* combo (while lastComboPressTime keeps the time of that press) it never
\* increases.
C18_NeverIncreasesWhileArmed ==
    /\ []ProgressInRange
    /\ [][DecaySetsProgress]_vars
    /\ [][(lastComboPressTime # 0 /\ lastComboPressTime' = lastComboPressTime)
          => pauseComboProgress' <= pauseComboProgress]_vars

\* C18 (amended): as above, but the value never increases from the first
\* decay callback that follows a first press until the next first press; the
\* first callback itself raises it from the value the press found.
C18_DecaysAfterFirstCallback ==
    /\ []ProgressInRange
    /\ [][DecaySetsProgress]_vars
    /\ [][(comboDecayed /\ comboDecayed')
          => pauseComboProgress' <= pauseComboProgress]_vars

C18_Witness ==
    /\ last.op = "animateComboBar"
    /\ comboDecayed
    /\ lastComboPressTime # 0
    /\ pauseComboProgress = 25

\* C19: the ids of the objects in the set are pairwise distinct and increase
\* with the position in the set (spawn order) by more than
\* OBJECT_SPAWN_INTERVAL; an object that enters the set has id = now, more
\* than OBJECT_SPAWN_INTERVAL above lastObjectSpawn, which no earlier id
\* exceeds, also after a pause or a restart.
C19_IdsIncrease ==
    /\ [](\A i, j \in DOMAIN objects :
             i < j => objects[j].id - objects[i].id > OBJECT_SPAWN_INTERVAL)
    /\ [](\A i \in DOMAIN objects : objects[i].id <= lastObjectSpawn)
    /\ [][\A j \in DOMAIN objects' :
             objects'[j].id \notin ObjectIds(objects) =>
                /\ objects'[j].id = now
                /\ objects'[j].id - lastObjectSpawn > OBJECT_SPAWN_INTERVAL
                /\ lastObjectSpawn' = objects'[j].id]_vars

C19_Witness ==
    /\ last.op = "gameLoop"
    /\ Len(objects) = 1
    /\ objects[1].id > T0
    /\ activeTicks = 1
    /\ ticks > 1

\* C20: while the component is mounted exactly one main-tick callback is
\* pending, the one gameLoopRef names, after every callback: both branches
\* of gameLoop re-arm, and a rebuilt gameLoop replaces the pending callback.
C20_OneMainTickPending ==
    mounted =>
       /\ Cardinality(LoopFrames(frames)) = 1
       /\ \A f \in LoopFrames(frames) : f.id = gameLoopRef

C20_Witness ==
    /\ last.op = "gameLoop"
    /\ mounted
    /\ gameState = "Active"
    /\ keysPressed = {"ArrowRight"}
    /\ player.x = initialPlayer.x + PLAYER_SPEED
    /\ DecayPending

====
